---------------------------- MODULE Spec2Model ----------------------------
(***************************************************************************)
(* Model of the browser artifact extractor (WBD.py and its near-duplicate  *)
(* WindowsBrowserData.py): the timestamp converter, the relational reader  *)
(* (history / cookies), the bookmark reader, the pandas concatenation that *)
(* builds the combined tables, and the module-level orchestration.         *)
(*                                                                         *)
(* Python values are modelled as records:                                  *)
(*   - an int is held in the normal form of datetime.timedelta, the triple *)
(*     (days, seconds, microseconds) with 0 <= seconds < 86400 and         *)
(*     0 <= microseconds < 10^6, because the microsecond counts the        *)
(*     program handles (about 1.3 * 10^16) exceed the integers of TLC;     *)
(*   - a str is a sequence of one-character strings;                       *)
(*   - None and NaN are their own kinds.                                   *)
(* A Python call is modelled by an operator returning [exc, val]: exc is   *)
(* "none" when the call returns val, else the name of the exception raised.*)
(***************************************************************************)
EXTENDS Integers, Sequences, FiniteSets, TLC

VARIABLES
  variant,    \* which source file runs: "WBD" or "WindowsBrowserData"
  pc,         \* position of the module-level script
  rpc,        \* position inside the running extract_history_cookies call
  store,      \* the store file the running reader call was given
  df,         \* the data frame local to the running reader call
  tables,     \* the per-browser tables assigned so far, by variable name
  combined,   \* the combined tables assigned so far, by kind
  backups,    \* the '.backup' files written so far
  conns,      \* the paths sqlite3.connect has been called on
  raised,     \* the exception that ended the script ("none" while running)
  csvs,       \* the CSV files written so far
  cvIn,       \* convert_timestamp: argument
  cvOut,      \* convert_timestamp: outcome ([exc, val]) once called
  mIn,        \* concat: the two frames and the two tags
  mOut,       \* concat: the combined frame once built
  bmIn,       \* extract_bookmarks: the bookmarks file
  bmOut       \* extract_bookmarks: outcome once called

vars == <<variant, pc, rpc, store, df, tables, combined, backups, conns,
          raised, csvs, cvIn, cvOut, mIn, mOut, bmIn, bmOut>>

-----------------------------------------------------------------------------
(* Python values *)

PyInt(d, s, u) == [k |-> "int", chars |-> <<>>, days |-> d, seconds |-> s, microseconds |-> u]
PyStr(cs)      == [k |-> "str", chars |-> cs, days |-> 0, seconds |-> 0, microseconds |-> 0]
PyNone         == [k |-> "none", chars |-> <<>>, days |-> 0, seconds |-> 0, microseconds |-> 0]
PyNaN          == [k |-> "nan", chars |-> <<>>, days |-> 0, seconds |-> 0, microseconds |-> 0]
\* a list, held by the names of its elements (a folder's nested children)
PyList(names)  == [k |-> "list", chars |-> names, days |-> 0, seconds |-> 0, microseconds |-> 0]

Returns(v) == [exc |-> "none", val |-> v]
Raises(e)  == [exc |-> e, val |-> PyNone]

DigitChars == <<"0", "1", "2", "3", "4", "5", "6", "7", "8", "9">>
IsDigit(c) == \E i \in 1..10 : DigitChars[i] = c
DigitVal(c) == (CHOOSE i \in 1..10 : DigitChars[i] = c) - 1

-----------------------------------------------------------------------------
(* int(timestamp), WBD.py line 31 *)

\* the (days, seconds, microseconds) form of a count given with its seconds
\* and microseconds out of range: the carries of Python's divmod
Normalize(d, s, u) ==
  PyInt(d + (s + u \div 1000000) \div 86400,
        (s + u \div 1000000) % 86400,
        u % 1000000)

\* x * 10 + digit
MulAdd10(x, digit) == Normalize(x.days * 10, x.seconds * 10, x.microseconds * 10 + digit)

\* -x
Negate(x) == Normalize(0 - x.days, 0 - x.seconds, 0 - x.microseconds)

RECURSIVE DigitsValue(_, _)
DigitsValue(cs, acc) ==
  IF cs = <<>> THEN acc
  ELSE DigitsValue(Tail(cs), MulAdd10(acc, DigitVal(Head(cs))))

RECURSIVE LStrip(_)
LStrip(cs) == IF cs # <<>> /\ Head(cs) = " " THEN LStrip(Tail(cs)) ELSE cs

RECURSIVE RStrip(_)
RStrip(cs) ==
  IF cs # <<>> /\ cs[Len(cs)] = " " THEN RStrip(SubSeq(cs, 1, Len(cs) - 1)) ELSE cs

AllDigits(cs) == cs # <<>> /\ \A i \in 1..Len(cs) : IsDigit(cs[i])

Signed(mag, neg) == IF neg THEN Negate(mag) ELSE mag

IntOfDigits(body, neg) ==
  IF ~AllDigits(body) THEN Raises("ValueError")
  ELSE Returns(Signed(DigitsValue(body, PyInt(0, 0, 0)), neg))

IntOfStripped(t) ==
  IF t # <<>> /\ Head(t) \in {"-", "+"}
  THEN IntOfDigits(Tail(t), Head(t) = "-")
  ELSE IntOfDigits(t, FALSE)

\* int(str): surrounding blanks are stripped, one sign is allowed, the rest
\* must be decimal digits; anything else is a ValueError
IntOfStr(cs) == IntOfStripped(RStrip(LStrip(cs)))

\* int(x) for the kinds of value a column can hold
ToInt(x) ==
  CASE x.k = "int"  -> Returns(x)
    [] x.k = "str"  -> IntOfStr(x.chars)
    [] x.k = "nan"  -> Raises("ValueError")
    [] x.k = "none" -> Raises("TypeError")
    [] x.k = "list" -> Raises("TypeError")

-----------------------------------------------------------------------------
(* datetime.datetime(1601, 1, 1) + datetime.timedelta(microseconds=t),     *)
(* WBD.py line 33, by the proleptic Gregorian arithmetic of datetime       *)

IsLeap(y) == y % 4 = 0 /\ (y % 100 # 0 \/ y % 400 = 0)

DaysBeforeMonthTable == <<0, 31, 59, 90, 120, 151, 181, 212, 243, 273, 304, 334>>
DaysInMonthTable     == <<31, 28, 31, 30, 31, 30, 31, 31, 30, 31, 30, 31>>

LeapDay(after, leap) == IF after /\ leap THEN 1 ELSE 0
DaysBeforeMonth(y, m) == DaysBeforeMonthTable[m] + LeapDay(m > 2, IsLeap(y))

\* datetime._ord2ymd, ordinal (1 = 0001-01-01) to <<year, month, day>>, in
\* the order of its statements, last statement first
OrdDay(year, leap, month, preceding, n) ==
  IF preceding > n
  THEN <<year, month - 1,
         n - (preceding - (DaysInMonthTable[month - 1] + LeapDay(month - 1 = 2, leap))) + 1>>
  ELSE <<year, month, n - preceding + 1>>

OrdMonth(year, leap, month, n) ==
  OrdDay(year, leap, month, DaysBeforeMonthTable[month] + LeapDay(month > 2, leap), n)

OrdYear(year, n100, n4, n1, n) ==
  IF n1 = 4 \/ n100 = 4 THEN <<year - 1, 12, 31>>
  ELSE OrdMonth(year, n1 = 3 /\ (n4 # 24 \/ n100 = 3), (n + 50) \div 32, n)

Ord1(n400, n100, n4, n) ==
  OrdYear(n400 * 400 + 1 + n100 * 100 + n4 * 4 + n \div 365, n100, n4, n \div 365, n % 365)

Ord4(n400, n100, n) == Ord1(n400, n100, n \div 1461, n % 1461)

Ord100(n400, n) == Ord4(n400, n \div 36524, n % 36524)

OrdToYmd(ordinal) == Ord100((ordinal - 1) \div 146097, (ordinal - 1) % 146097)

\* datetime._days_before_year and datetime._ymd2ord
DaysBeforeYear(y) ==
  (y - 1) * 365 + (y - 1) \div 4 - (y - 1) \div 100 + (y - 1) \div 400
YmdToOrd(y, m, d) == DaysBeforeYear(y) + DaysBeforeMonth(y, m) + d

\* datetime(1601, 1, 1).toordinal()
EpochOrdinal == YmdToOrd(1601, 1, 1)
\* datetime.max.toordinal(), 9999-12-31
MaxOrdinal == YmdToOrd(9999, 12, 31)
\* the largest |days| a timedelta holds
MaxDeltaDays == 999999999

\* <<year, month, day, hour, minute, second>>; the microsecond field of the
\* sum plays no part in the format of line 35
DateTime(ymd, seconds) ==
  <<ymd[1], ymd[2], ymd[3], seconds \div 3600, (seconds % 3600) \div 60, seconds % 60>>

\* the date of the sum; OverflowError outside 0001-01-01 .. 9999-12-31
DatePlus(ordinal, seconds) ==
  IF ordinal < 1 \/ ordinal > MaxOrdinal THEN Raises("OverflowError")
  ELSE Returns(DateTime(OrdToYmd(ordinal), seconds))

\* (mutant) the sum rounded to the nearest second instead of truncated
EpochPlusRounded(t) ==
  DatePlus(EpochOrdinal + Normalize(t.days, t.seconds, t.microseconds + 500000).days,
           Normalize(t.days, t.seconds, t.microseconds + 500000).seconds)

\* the sum as [exc, val]
EpochPlus(t) ==
  IF t.days > MaxDeltaDays \/ t.days < 0 - MaxDeltaDays THEN Raises("OverflowError")
  ELSE DatePlus(EpochOrdinal + t.days, t.seconds)

-----------------------------------------------------------------------------
(* strftime('%Y-%m-%d %H:%M:%S'), WBD.py line 35.  The year is zero-padded *)
(* to four digits, as the C runtime of the platform the script targets     *)
(* (Windows) renders %Y.                                                   *)

Digit(n) == DigitChars[n + 1]
Pad2(n) == <<Digit(n \div 10), Digit(n % 10)>>
Pad4(n) == <<Digit(n \div 1000), Digit((n \div 100) % 10), Digit((n \div 10) % 10), Digit(n % 10)>>

Strftime(dt) ==
  Pad4(dt[1]) \o <<"-">> \o Pad2(dt[2]) \o <<"-">> \o Pad2(dt[3]) \o <<" ">> \o
  Pad2(dt[4]) \o <<":">> \o Pad2(dt[5]) \o <<":">> \o Pad2(dt[6])

-----------------------------------------------------------------------------
(* convert_timestamp, WBD.py lines 28-38 *)

\* line 35, given the outcome of line 33
FormatSum(dt) == IF dt.exc # "none" THEN dt ELSE Returns(PyStr(Strftime(dt.val)))

\* lines 33-35, given the outcome of line 31
ConvertInt(i) == IF i.exc # "none" THEN i ELSE FormatSum(EpochPlus(i.val))

\* the try body, lines 31-35
ConvertBody(timestamp) == ConvertInt(ToInt(timestamp))

\* the exceptions the except clause of line 36 names
ConvertCaught == {"ValueError"}

\* lines 36-38, given the outcome of the try body
ConvertExcept(timestamp, r) == IF r.exc \in ConvertCaught THEN Returns(timestamp) ELSE r

convert_timestamp(timestamp) == ConvertExcept(timestamp, ConvertBody(timestamp))

-----------------------------------------------------------------------------
(* pandas data frames: an ordered list of column labels and an ordered     *)
(* list of rows, each row a sequence of values aligned with the columns    *)

Frame(cols, rows) == [columns |-> cols, rows |-> rows]

\* pandas.DataFrame(): no columns, no rows
EmptyFrame == Frame(<<>>, <<>>)

HasCol(f, c) == \E i \in 1..Len(f.columns) : f.columns[i] = c
ColIndex(f, c) == CHOOSE i \in 1..Len(f.columns) : f.columns[i] = c

\* the outcomes of convert_timestamp on the cells of column j, row by row
ConvertColumn(f, j) == [i \in 1..Len(f.rows) |-> convert_timestamp(f.rows[i][j])]

\* Series.apply stops at the first cell on which the function raises
FirstRaising(res) ==
  IF \A i \in 1..Len(res) : res[i].exc = "none" THEN 0
  ELSE CHOOSE i \in 1..Len(res) :
         res[i].exc # "none" /\ \A k \in 1..(i - 1) : res[k].exc = "none"

StoreColumn(f, j, res, bad) ==
  IF bad # 0 THEN Raises(res[bad].exc)
  ELSE Returns(Frame(f.columns,
                     [i \in 1..Len(f.rows) |-> [f.rows[i] EXCEPT ![j] = res[i].val]]))

ApplyToColumn(f, j, res) == StoreColumn(f, j, res, FirstRaising(res))

ApplyAt(f, j) == ApplyToColumn(f, j, ConvertColumn(f, j))

\* df[column] = df[column].apply(convert_timestamp)
ApplyConvert(f, c) ==
  IF ~HasCol(f, c) THEN Raises("KeyError") ELSE ApplyAt(f, ColIndex(f, c))

\* the loop of WBD.py lines 61-63 over columns_to_convert
RECURSIVE ApplyConvertAll(_, _)
ApplyConvertRest(r, cols) == IF r.exc # "none" THEN r ELSE ApplyConvertAll(r.val, cols)

ApplyConvertAll(f, cols) ==
  IF cols = <<>> THEN Returns(f)
  ELSE ApplyConvertRest(ApplyConvert(f, Head(cols)), Tail(cols))

\* df[[...]]: the listed columns in the listed order; KeyError if one is missing
SelectColumns(f, cols) ==
  IF \E i \in 1..Len(cols) : ~HasCol(f, cols[i]) THEN Raises("KeyError")
  ELSE Returns(Frame(cols,
         [i \in 1..Len(f.rows) |->
            [j \in 1..Len(cols) |-> f.rows[i][ColIndex(f, cols[j])]]]))

\* df.assign(browser=tag): the column is overwritten when present, appended
\* as the last column otherwise
Assign(f, c, v) ==
  IF HasCol(f, c)
  THEN Frame(f.columns, [i \in 1..Len(f.rows) |-> [f.rows[i] EXCEPT ![ColIndex(f, c)] = v]])
  ELSE Frame(Append(f.columns, c), [i \in 1..Len(f.rows) |-> Append(f.rows[i], v)])

\* the labels of b that a lacks, in b's order
RECURSIVE NewLabels(_, _)
NewLabels(seen, cs) ==
  IF cs = <<>> THEN <<>>
  ELSE IF \E i \in 1..Len(seen) : seen[i] = Head(cs)
       THEN NewLabels(seen, Tail(cs))
       ELSE <<Head(cs)>> \o NewLabels(Append(seen, Head(cs)), Tail(cs))

\* a frame's rows laid out on the given columns, NaN where it has no value
Reindex(f, cols) ==
  [i \in 1..Len(f.rows) |->
     [j \in 1..Len(cols) |->
        IF HasCol(f, cols[j]) THEN f.rows[i][ColIndex(f, cols[j])] ELSE PyNaN]]

\* pandas.concat([a, b]): outer join of the columns in order of first
\* appearance, a's rows then b's rows
\* (mutant) the rows of b already among the rows of a are dropped
ConcatDropDuplicates(a, b) ==
  Frame(a.columns \o NewLabels(a.columns, b.columns),
        Reindex(a, a.columns \o NewLabels(a.columns, b.columns)) \o
        SelectSeq(Reindex(b, a.columns \o NewLabels(a.columns, b.columns)),
                  LAMBDA r : \A i \in 1..Len(a.rows) :
                     Reindex(a, a.columns \o NewLabels(a.columns, b.columns))[i] # r))

ConcatOn(a, b, cols) == Frame(cols, Reindex(a, cols) \o Reindex(b, cols))

Concat(a, b) == ConcatOn(a, b, a.columns \o NewLabels(a.columns, b.columns))

\* pandas.concat([a.assign(browser=x), b.assign(browser=y)]), WBD.py lines 159-164
Combine(a, x, b, y) == Concat(Assign(a, "browser", x), Assign(b, "browser", y))

-----------------------------------------------------------------------------
(* the fixed queries and column lists, WBD.py lines 117-142 *)

Kinds == {"history", "cookies", "bookmarks"}

\* the tags of WBD.py lines 160-164
ChromeTag == PyStr(<<"C", "h", "r", "o", "m", "e">>)
EdgeTag   == PyStr(<<"E", "d", "g", "e">>)

timestamp_cookies == <<"creation_utc", "expires_utc", "last_access_utc">>
timestamp_history == <<"last_visit_time">>

\* the projection of the SELECT of each kind
QueryColumns(kind) ==
  IF kind = "history"
  THEN <<"url", "title", "visit_count", "last_visit_time">>
  ELSE <<"host_key", "name", "value", "creation_utc", "expires_utc", "last_access_utc">>

ColumnsToConvert(kind) ==
  IF kind = "history" THEN timestamp_history ELSE timestamp_cookies

\* the column list of the bookmarks selection, WBD.py line 96
BookmarkColumns == <<"name", "type", "url", "date_added">>

\* browser_path + '.backup', WBD.py line 52
BackupPath(path) == Append(path, ".backup")
\* (mutant) the connection is opened on the store itself
ConnectOriginal(path) == path
\* the path handed to sqlite3.connect, WBD.py line 56
ConnectPath(path) == BackupPath(path)

\* the exceptions the except clause of extract_history_cookies names (line 68):
\* sqlite3.Error and its subclasses
ReaderCaught == {"sqlite3.OperationalError", "sqlite3.DatabaseError"}

\* pandas.read_sql_query wraps an error of cursor.execute in
\* pandas.errors.DatabaseError (a subclass of OSError); an error of the fetch
\* is raised as it is
ReadSqlQuery(file, kind) ==
  IF file.execute # "ok" THEN Raises("pandas.errors.DatabaseError")
  ELSE IF file.fetch # "ok" THEN Raises(file.fetch)
  ELSE Returns(Frame(QueryColumns(kind), file.rows))

-----------------------------------------------------------------------------
(* extract_bookmarks, WBD.py lines 74-103 and WindowsBrowserData.py 60-71  *)

\* pandas.json_normalize(children): one row per element of the list, the
\* columns being the keys met, in order of first appearance; a value that is
\* a list (a folder's children) stays one cell
RECURSIVE JsonNormalize(_)
JsonNormalize(items) ==
  IF items = <<>> THEN EmptyFrame
  ELSE Concat(JsonNormalize(SubSeq(items, 1, Len(items) - 1)),
              Frame(items[Len(items)].keys, <<items[Len(items)].vals>>))

\* the guard of WBD.py line 88
HasChildrenPath(doc) == doc.roots /\ doc.bookmark_bar /\ doc.children

\* WBD.py line 96 (WindowsBrowserData.py line 68), given the outcome of what
\* precedes it
SelectBookmarks(r) == IF r.exc # "none" THEN r ELSE SelectColumns(r.val, BookmarkColumns)

\* WBD.py lines 92-93
ConvertIfPresent(data) ==
  IF HasCol(data, "date_added") THEN ApplyConvert(data, "date_added") ELSE Returns(data)

\* the try body of WBD.py, lines 83-99
BookmarksBodyWBD(file) ==
  IF ~file.parses THEN Raises("ValueError")
  ELSE IF ~HasChildrenPath(file.doc) THEN Returns(EmptyFrame)
  ELSE SelectBookmarks(ConvertIfPresent(JsonNormalize(file.doc.items)))

\* the try body of WindowsBrowserData.py, lines 65-68
BookmarksBodyWindows(file) ==
  IF ~file.exists THEN Raises("FileNotFoundError")
  ELSE IF ~file.parses THEN Raises("ValueError")
  ELSE IF ~HasChildrenPath(file.doc) THEN Raises("KeyError")
  ELSE SelectBookmarks(Returns(JsonNormalize(file.doc.items)))

\* 'except Exception' catches every exception the body raises and returns
\* pandas.DataFrame()
BookmarksExcept(r) == IF r.exc # "none" THEN Returns(EmptyFrame) ELSE r

extract_bookmarks(v, file) ==
  IF v = "WBD"
  THEN IF ~file.exists THEN Returns(EmptyFrame)
       ELSE BookmarksExcept(BookmarksBodyWBD(file))
  ELSE BookmarksExcept(BookmarksBodyWindows(file))

\* WindowsBrowserData.py lines 114 and 116, at module level:
\* x['date_added'] = x['date_added'].apply(convert_timestamp)
ConvertDateAdded(f) == ApplyConvert(f, "date_added")

-----------------------------------------------------------------------------
(* bounds of the model and the inputs drawn within them *)

\* rows of a store file in the orchestrated run
MaxRows == 1
\* direct children of the bookmark bar in the orchestrated run
MaxRunChildren == 1
\* direct children of the bookmark bar when the bookmark reader is checked
MaxChildren == 2
\* rows of each frame when the concatenation is checked
MaxMergeRows == 2
\* days on each side of every calendar anchor the converter is checked at
DaySpan == 1
\* step, in days, of the sweep over the representable dates
DayStride == 4001

SeqsUpTo(S, n) == UNION {[1..k -> S] : k \in 0..n}

\* 13330000000000000 microseconds, the sample of the specification, as an int
SampleStamp == PyInt(154282, 35200, 0)
SampleStampStr ==
  PyStr(<<"1", "3", "3", "3", "0", "0", "0", "0", "0", "0", "0", "0", "0", "0", "0", "0", "0">>)
NotANumber == PyStr(<<"n", "o", "t", "-", "a", "-", "n", "u", "m", "b", "e", "r">>)

HistoryRow(url, ts) == <<PyStr(<<url>>), PyStr(<<"t">>), PyInt(0, 0, 1), ts>>
CookieRow(host, ts) == <<PyStr(<<host>>), PyStr(<<"n">>), PyStr(<<"v">>), ts, ts, ts>>

\* the values a timestamp column holds in the orchestrated run: a valid
\* count, and the None pandas gives for a column of NULLs
RunStamps == {SampleStamp, PyNone}

RunRows(kind) ==
  IF kind = "history" THEN {HistoryRow("a", ts) : ts \in RunStamps}
  ELSE {CookieRow("a", ts) : ts \in RunStamps}

-----------------------------------------------------------------------------
(* the module-level script, WBD.py lines 122-171 *)

RelationalSteps == {"chrome_history", "edge_history", "chrome_cookies", "edge_cookies"}
BookmarkSteps == {"chrome_bookmarks", "edge_bookmarks"}
BookmarkConvertSteps == {"chrome_bookmarks_convert", "edge_bookmarks_convert"}

StepKind(step) ==
  CASE step \in {"chrome_history", "edge_history"} -> "history"
    [] step \in {"chrome_cookies", "edge_cookies"} -> "cookies"
    [] OTHER -> "bookmarks"

StepBrowser(step) ==
  IF step \in {"chrome_history", "chrome_cookies", "chrome_bookmarks", "chrome_bookmarks_convert"}
  THEN "Chrome" ELSE "Edge"

\* the variable a step assigns
TableName(browser, kind) ==
  CASE browser = "Chrome" /\ kind = "history"   -> "chrome_history"
    [] browser = "Chrome" /\ kind = "cookies"   -> "chrome_cookies"
    [] browser = "Chrome" /\ kind = "bookmarks" -> "chrome_bookmarks"
    [] browser = "Edge" /\ kind = "history"     -> "edge_history"
    [] browser = "Edge" /\ kind = "cookies"     -> "edge_cookies"
    [] browser = "Edge" /\ kind = "bookmarks"   -> "edge_bookmarks"

TableNames == {TableName(b, k) : b \in {"Chrome", "Edge"}, k \in Kinds}

\* the statement that follows a statement; only WindowsBrowserData.py has the
\* module-level conversion of the bookmark tables (its lines 114 and 116)
NextStep(v, step) ==
  CASE step = "chrome_history"   -> "edge_history"
    [] step = "edge_history"     -> "chrome_cookies"
    [] step = "chrome_cookies"   -> "edge_cookies"
    [] step = "edge_cookies"     -> "chrome_bookmarks"
    [] step = "chrome_bookmarks" ->
         IF v = "WBD" THEN "edge_bookmarks" ELSE "chrome_bookmarks_convert"
    [] step = "chrome_bookmarks_convert" -> "edge_bookmarks"
    [] step = "edge_bookmarks" ->
         IF v = "WBD" THEN "save" ELSE "edge_bookmarks_convert"
    [] step = "edge_bookmarks_convert" -> "save"
    [] step = "save"             -> "combine"
    [] step = "combine"          -> "save_combined"
    [] step = "save_combined"    -> "done"

\* os.path.join(chrome_path, 'History') and the like
StorePath(step) ==
  <<StepBrowser(step), IF StepKind(step) = "history" THEN "History" ELSE "Cookies">>

\* a store file: whether it exists, what each access to it (or to its copy)
\* ends in, and the rows its table holds
StoreFile(path, exists, copy, connect, execute, fetch, rows) ==
  [path |-> path, exists |-> exists, copy |-> copy, connect |-> connect,
   execute |-> execute, fetch |-> fetch, rows |-> rows]

NoStore == StoreFile(<<>>, FALSE, "ok", "ok", "ok", "ok", <<>>)

StoreFiles(step) ==
  LET p == StorePath(step)
  IN  { StoreFile(p, FALSE, "ok", "ok", "ok", "ok", <<>>),
        \* the live store is locked against the copy
        StoreFile(p, TRUE, "PermissionError", "ok", "ok", "ok", <<>>),
        \* the copy cannot be opened
        StoreFile(p, TRUE, "ok", "sqlite3.OperationalError", "ok", "ok", <<>>),
        \* zero-byte or foreign file, missing table: the statement fails
        StoreFile(p, TRUE, "ok", "ok", "sqlite3.OperationalError", "ok", <<>>),
        \* a damaged page met while the rows are fetched
        StoreFile(p, TRUE, "ok", "ok", "ok", "sqlite3.DatabaseError", <<>>) }
      \cup
      { StoreFile(p, TRUE, "ok", "ok", "ok", "ok", r) :
          r \in SeqsUpTo(RunRows(StepKind(step)), MaxRows) }

\* a bookmarks file
BookmarksFile(exists, parses, roots, bar, children, items) ==
  [exists |-> exists, parses |-> parses,
   doc |-> [roots |-> roots, bookmark_bar |-> bar, children |-> children, items |-> items]]

UrlElement(name, date) ==
  [keys |-> <<"date_added", "name", "type", "url">>,
   vals |-> <<date, PyStr(<<name>>), PyStr(<<"url">>), PyStr(<<"h", "/", name>>)>>]

FolderElement(name, date, nested) ==
  [keys |-> <<"children", "date_added", "name", "type">>,
   vals |-> <<PyList(nested), date, PyStr(<<name>>), PyStr(<<"folder">>)>>]

\* the files whose path roots.bookmark_bar.children is broken, and none
BrokenBookmarkFiles ==
  { BookmarksFile(FALSE, TRUE, FALSE, FALSE, FALSE, <<>>),
    BookmarksFile(TRUE, FALSE, FALSE, FALSE, FALSE, <<>>),
    BookmarksFile(TRUE, TRUE, FALSE, FALSE, FALSE, <<>>),
    BookmarksFile(TRUE, TRUE, TRUE, FALSE, FALSE, <<>>),
    BookmarksFile(TRUE, TRUE, TRUE, TRUE, FALSE, <<>>) }

WellFormedBookmarkFiles(elements, n) ==
  { BookmarksFile(TRUE, TRUE, TRUE, TRUE, TRUE, items) : items \in SeqsUpTo(elements, n) }

RunElements == {UrlElement("s", SampleStampStr), FolderElement("f", SampleStampStr, <<>>)}

RunBookmarkFiles == BrokenBookmarkFiles \cup WellFormedBookmarkFiles(RunElements, MaxRunChildren)

EmptyTables == [n \in {} |-> EmptyFrame]

Pending == [stage |-> "pending", exc |-> "none", val |-> EmptyFrame]

\* the variables of the checks of single functions, while the script runs
FunctionVarsIdle ==
  /\ cvIn = PyNone /\ cvOut = Raises("pending")
  /\ mIn = [a |-> EmptyFrame, x |-> ChromeTag, b |-> EmptyFrame, y |-> EdgeTag]
  /\ mOut = [done |-> FALSE, frame |-> EmptyFrame]
  /\ bmIn = BookmarksFile(FALSE, TRUE, FALSE, FALSE, FALSE, <<>>)
  /\ bmOut = Pending

\* the variables of the script, while a single function is checked
ScriptVarsIdle ==
  /\ pc = "idle" /\ rpc = "idle" /\ store = NoStore /\ df = EmptyFrame
  /\ tables = EmptyTables /\ combined = EmptyTables
  /\ backups = {} /\ conns = {} /\ raised = "none" /\ csvs = {}

Init ==
  /\ variant \in {"WBD", "WindowsBrowserData"}
  /\ pc = "chrome_history" /\ rpc = "idle" /\ store = NoStore /\ df = EmptyFrame
  /\ tables = EmptyTables /\ combined = EmptyTables
  /\ backups = {} /\ conns = {} /\ raised = "none" /\ csvs = {}
  /\ FunctionVarsIdle

\* a reader call returns: the assignment of the calling statement is made
ReaderReturn(f) ==
  /\ tables' = (pc :> f) @@ tables
  /\ pc' = NextStep(variant, pc)
  /\ rpc' = "idle"
  /\ raised' = raised

\* an exception inside the try of extract_history_cookies: the except clause
\* of line 68 returns pandas.DataFrame() for the exceptions it names; any
\* other exception leaves the function and, uncaught at module level, ends
\* the script
ReaderThrow(e) ==
  IF e \in ReaderCaught THEN ReaderReturn(EmptyFrame)
  ELSE /\ raised' = e
       /\ rpc' = "idle"
       /\ UNCHANGED <<tables, pc>>

\* extract_history_cookies, lines 43-47: the call and the existence check
ReaderCall ==
  /\ raised = "none" /\ pc \in RelationalSteps /\ rpc = "idle"
  /\ \E f \in StoreFiles(pc) :
       /\ store' = f
       /\ IF ~f.exists THEN ReaderReturn(EmptyFrame)
          ELSE rpc' = "copy" /\ UNCHANGED <<tables, pc, raised>>
  /\ UNCHANGED <<variant, df, combined, backups, conns, csvs,
                 cvIn, cvOut, mIn, mOut, bmIn, bmOut>>

\* lines 52-53: shutil.copyfile(browser_path, backup_path)
ReaderCopy ==
  /\ raised = "none" /\ rpc = "copy"
  /\ IF store.copy = "ok"
     THEN /\ backups' = backups \cup {BackupPath(store.path)}
          /\ rpc' = "connect"
          /\ UNCHANGED <<tables, pc, raised>>
     ELSE /\ ReaderThrow(store.copy)
          /\ backups' = backups
  /\ UNCHANGED <<variant, store, df, combined, conns, csvs,
                 cvIn, cvOut, mIn, mOut, bmIn, bmOut>>

\* line 56: sqlite3.connect(backup_path)
ReaderConnect ==
  /\ raised = "none" /\ rpc = "connect"
  /\ conns' = conns \cup {ConnectPath(store.path)}
  /\ IF store.connect = "ok"
     THEN rpc' = "query" /\ UNCHANGED <<tables, pc, raised>>
     ELSE ReaderThrow(store.connect)
  /\ UNCHANGED <<variant, store, df, combined, backups, csvs,
                 cvIn, cvOut, mIn, mOut, bmIn, bmOut>>

QueryDone(r) ==
  IF r.exc = "none"
  THEN df' = r.val /\ rpc' = "convert" /\ UNCHANGED <<tables, pc, raised>>
  ELSE ReaderThrow(r.exc) /\ df' = df

\* line 58: pandas.read_sql_query(query, conn)
ReaderQuery ==
  /\ raised = "none" /\ rpc = "query"
  /\ QueryDone(ReadSqlQuery(store, StepKind(pc)))
  /\ UNCHANGED <<variant, store, combined, backups, conns, csvs,
                 cvIn, cvOut, mIn, mOut, bmIn, bmOut>>

ConvertDone(r) == IF r.exc = "none" THEN ReaderReturn(r.val) ELSE ReaderThrow(r.exc)

\* lines 61-66: the conversion of the timestamp columns and the return
ReaderConvert ==
  /\ raised = "none" /\ rpc = "convert"
  /\ ConvertDone(ApplyConvertAll(df, ColumnsToConvert(StepKind(pc))))
  /\ df' = EmptyFrame
  /\ UNCHANGED <<variant, store, combined, backups, conns, csvs,
                 cvIn, cvOut, mIn, mOut, bmIn, bmOut>>

\* lines 145 and 147: x_bookmarks = extract_bookmarks(...)
ReadBookmarks ==
  /\ raised = "none" /\ pc \in BookmarkSteps
  /\ \E f \in RunBookmarkFiles :
       /\ tables' = (pc :> extract_bookmarks(variant, f).val) @@ tables
       /\ pc' = NextStep(variant, pc)
  /\ UNCHANGED <<variant, rpc, store, df, combined, backups, conns, raised, csvs,
                 cvIn, cvOut, mIn, mOut, bmIn, bmOut>>

DateAddedDone(name, r) ==
  IF r.exc = "none"
  THEN /\ tables' = [tables EXCEPT ![name] = r.val]
       /\ pc' = NextStep(variant, pc)
       /\ raised' = raised
  ELSE /\ raised' = r.exc
       /\ UNCHANGED <<tables, pc>>

\* WindowsBrowserData.py lines 114 and 116
ConvertBookmarks ==
  /\ raised = "none" /\ pc \in BookmarkConvertSteps
  /\ DateAddedDone(TableName(StepBrowser(pc), "bookmarks"),
                   ConvertDateAdded(tables[TableName(StepBrowser(pc), "bookmarks")]))
  /\ UNCHANGED <<variant, rpc, store, df, combined, backups, conns, csvs,
                 cvIn, cvOut, mIn, mOut, bmIn, bmOut>>

\* lines 151-156: the six per-browser CSV files
SaveTables ==
  /\ raised = "none" /\ pc = "save"
  /\ csvs' = csvs \cup TableNames
  /\ pc' = NextStep(variant, pc)
  /\ UNCHANGED <<variant, rpc, store, df, tables, combined, backups, conns, raised,
                 cvIn, cvOut, mIn, mOut, bmIn, bmOut>>

\* lines 159-164: the three combined tables
CombineTables ==
  /\ raised = "none" /\ pc = "combine"
  /\ combined' = [k \in Kinds |->
                    Combine(tables[TableName("Chrome", k)], ChromeTag,
                            tables[TableName("Edge", k)], EdgeTag)]
  /\ pc' = NextStep(variant, pc)
  /\ UNCHANGED <<variant, rpc, store, df, tables, backups, conns, raised, csvs,
                 cvIn, cvOut, mIn, mOut, bmIn, bmOut>>

\* lines 166-171: the three combined CSV files and the final message
SaveCombined ==
  /\ raised = "none" /\ pc = "save_combined"
  /\ csvs' = csvs \cup {"combined_history", "combined_cookies", "combined_bookmarks"}
  /\ pc' = NextStep(variant, pc)
  /\ UNCHANGED <<variant, rpc, store, df, tables, combined, backups, conns, raised,
                 cvIn, cvOut, mIn, mOut, bmIn, bmOut>>

Next ==
  \/ ReaderCall \/ ReaderCopy \/ ReaderConnect \/ ReaderQuery \/ ReaderConvert
  \/ ReadBookmarks \/ ConvertBookmarks
  \/ SaveTables \/ CombineTables \/ SaveCombined

Spec == Init /\ [][Next]_vars

-----------------------------------------------------------------------------
(* convert_timestamp alone: the argument is drawn, the function is called  *)

\* dates at which the calendar arithmetic has its cases: both ends of the
\* range of datetime, the epoch, leap days, century years, year ends
AnchorDates ==
  { <<1, 1, 1>>, <<9999, 12, 31>>, <<1601, 1, 1>>, <<1604, 2, 29>>, <<1700, 3, 1>>,
    <<1900, 2, 28>>, <<1970, 1, 1>>, <<2000, 2, 29>>, <<2000, 12, 31>>, <<2023, 5, 31>>,
    <<2024, 12, 31>>, <<400, 12, 31>> }

AnchorDays == {YmdToOrd(a[1], a[2], a[3]) - EpochOrdinal : a \in AnchorDates}

SweepDays == {(1 - EpochOrdinal) + k * DayStride : k \in 0..((MaxOrdinal - 1) \div DayStride)}

ConvertDays ==
  {a + k : a \in AnchorDays, k \in (0 - DaySpan)..DaySpan}
    \cup SweepDays
    \cup {MaxDeltaDays, MaxDeltaDays + 1, 0 - MaxDeltaDays - 1}

ConvertSeconds == {0, 1, 3599, 43261, 86399}
ConvertMicroseconds == {0, 1, 499999, 500000, 999999}

ConvertStrings ==
  { SampleStampStr, NotANumber, PyStr(<<>>), PyStr(<<" ", "1", "2", " ">>),
    PyStr(<<"-", "1">>), PyStr(<<"+", "7">>), PyStr(<<"-">>), PyStr(<<"1", ".", "5">>),
    PyStr(<<"1", " ", "2">>),
    \* 265046774400000000, the first microsecond of the year 10000
    PyStr(<<"2", "6", "5", "0", "4", "6", "7", "7", "4", "4", "0", "0", "0", "0", "0", "0", "0", "0">>) }

ConvertInputs ==
  {PyInt(d, sec, u) : d \in ConvertDays, sec \in ConvertSeconds, u \in ConvertMicroseconds}
    \cup ConvertStrings \cup {PyNone, PyNaN}

InitConvert ==
  /\ variant = "WBD"
  /\ ScriptVarsIdle
  /\ cvIn \in ConvertInputs /\ cvOut = Raises("pending")
  /\ mIn = [a |-> EmptyFrame, x |-> ChromeTag, b |-> EmptyFrame, y |-> EdgeTag]
  /\ mOut = [done |-> FALSE, frame |-> EmptyFrame]
  /\ bmIn = BookmarksFile(FALSE, TRUE, FALSE, FALSE, FALSE, <<>>)
  /\ bmOut = Pending

ConvertCall ==
  /\ cvOut.exc = "pending"
  /\ cvOut' = convert_timestamp(cvIn)
  /\ UNCHANGED <<variant, pc, rpc, store, df, tables, combined, backups, conns,
                 raised, csvs, cvIn, mIn, mOut, bmIn, bmOut>>

NextConvert == ConvertCall

SpecConvert == InitConvert /\ [][NextConvert]_vars

-----------------------------------------------------------------------------
(* the concatenation alone: two frames of one schema and two tags are      *)
(* drawn, the combined frame is built                                      *)

ConvertedStamp == PyStr(Strftime(<<2023, 5, 31, 9, 46, 40>>))

MergeRows(kind) ==
  IF kind = "history" THEN {HistoryRow(u, ConvertedStamp) : u \in {"a", "b"}}
  ELSE {CookieRow(h, ConvertedStamp) : h \in {"a", "b"}}

\* the frames of one schema: those of a query, or the one frame without columns
MergeFrames(kind) ==
  IF kind = "none" THEN {EmptyFrame}
  ELSE {Frame(QueryColumns(kind), r) : r \in SeqsUpTo(MergeRows(kind), MaxMergeRows)}

MergeInputs ==
  UNION { [a : MergeFrames(kind), x : {ChromeTag, EdgeTag},
           b : MergeFrames(kind), y : {ChromeTag, EdgeTag}] :
            kind \in {"history", "cookies", "none"} }

InitMerge ==
  /\ variant = "WBD"
  /\ ScriptVarsIdle
  /\ cvIn = PyNone /\ cvOut = Raises("pending")
  /\ mIn \in MergeInputs
  /\ mOut = [done |-> FALSE, frame |-> EmptyFrame]
  /\ bmIn = BookmarksFile(FALSE, TRUE, FALSE, FALSE, FALSE, <<>>)
  /\ bmOut = Pending

MergeCall ==
  /\ ~mOut.done
  /\ mOut' = [done |-> TRUE, frame |-> Combine(mIn.a, mIn.x, mIn.b, mIn.y)]
  /\ UNCHANGED <<variant, pc, rpc, store, df, tables, combined, backups, conns,
                 raised, csvs, cvIn, cvOut, mIn, bmIn, bmOut>>

NextMerge == MergeCall

SpecMerge == InitMerge /\ [][NextMerge]_vars

-----------------------------------------------------------------------------
(* the bookmark extraction of one browser alone: the file is drawn, the    *)
(* reader is called, and WindowsBrowserData.py converts date_added after   *)

BmElements ==
  { UrlElement("s", SampleStampStr), UrlElement("r", NotANumber),
    FolderElement("f", SampleStampStr, <<>>), FolderElement("g", SampleStampStr, <<"n">>) }

BookmarkFiles == BrokenBookmarkFiles \cup WellFormedBookmarkFiles(BmElements, MaxChildren)

InitBookmarks ==
  /\ variant \in {"WBD", "WindowsBrowserData"}
  /\ ScriptVarsIdle
  /\ cvIn = PyNone /\ cvOut = Raises("pending")
  /\ mIn = [a |-> EmptyFrame, x |-> ChromeTag, b |-> EmptyFrame, y |-> EdgeTag]
  /\ mOut = [done |-> FALSE, frame |-> EmptyFrame]
  /\ bmIn \in BookmarkFiles
  /\ bmOut = Pending

Staged(stage, r) == [stage |-> stage, exc |-> r.exc, val |-> r.val]

\* x_bookmarks = extract_bookmarks(...)
BmRead ==
  /\ bmOut.stage = "pending"
  /\ bmOut' = Staged("read", extract_bookmarks(variant, bmIn))
  /\ UNCHANGED <<variant, pc, rpc, store, df, tables, combined, backups, conns,
                 raised, csvs, cvIn, cvOut, mIn, mOut, bmIn>>

\* WindowsBrowserData.py line 114
BmConvert ==
  /\ variant = "WindowsBrowserData" /\ bmOut.stage = "read"
  /\ bmOut' = Staged("converted", ConvertDateAdded(bmOut.val))
  /\ UNCHANGED <<variant, pc, rpc, store, df, tables, combined, backups, conns,
                 raised, csvs, cvIn, cvOut, mIn, mOut, bmIn>>

NextBookmarks == BmRead \/ BmConvert

SpecBookmarks == InitBookmarks /\ [][NextBookmarks]_vars

-----------------------------------------------------------------------------
(* the claims *)

\* the paths of the store files and of their backup copies
StorePaths == {StorePath(step) : step \in RelationalSteps}
BackupPaths == {Append(p, ".backup") : p \in StorePaths}

\* C1: in extract_history_cookies the copy of the store to '<path>.backup'
\* is complete before any connection is opened, and every connection (hence
\* the query made on it) is on a backup copy, never on an original store.
C1_QueryOnBackupOnly ==
  /\ \A p \in conns : p \in BackupPaths /\ p \in backups /\ p \notin StorePaths
  /\ rpc \in {"query", "convert"} =>
       Append(store.path, ".backup") \in (conns \cap backups)

C1_Witness ==
  /\ rpc = "convert" /\ pc = "edge_cookies"
  /\ Cardinality(conns) = 4 /\ Len(df.rows) > 0

\* an access to the backup copy of an existing store ended in an error
HasDbError(f) ==
  f.exists /\ f.copy = "ok" /\ (f.connect # "ok" \/ f.execute # "ok" \/ f.fetch # "ok")

StoreTable(path) ==
  TableName(path[1], IF path[2] = "History" THEN "history" ELSE "cookies")

\* C2: for an existing store, a database-access error makes the reader
\* return an empty table and is never propagated out of the reader.  The
\* claim names the errors of the copying, of the opening and of the querying;
\* it is stated here for the last two alone, the errors sqlite3 reports on
\* the backup copy.
C2_DbErrorsYieldEmptyTable ==
  HasDbError(store) =>
    /\ pc \in RelationalSteps => raised = "none"
    /\ (rpc = "idle" /\ raised = "none") =>
         /\ StoreTable(store.path) \in DOMAIN tables
         /\ tables[StoreTable(store.path)].rows = <<>>

\* 'YYYY-MM-DD HH:MM:SS'
IsCalendarString(cs) ==
  /\ Len(cs) = 19
  /\ cs[5] = "-" /\ cs[8] = "-" /\ cs[11] = " " /\ cs[14] = ":" /\ cs[17] = ":"
  /\ \A i \in {1, 2, 3, 4, 6, 7, 9, 10, 12, 13, 15, 16, 18, 19} : IsDigit(cs[i])

\* C3: convert never fails its caller: for every argument it returns the
\* formatted calendar string or the argument unchanged, and never raises.
C3_ConvertNeverRaises ==
  cvOut.exc # "pending" =>
    /\ cvOut.exc = "none"
    /\ cvOut.val = cvIn \/ (cvOut.val.k = "str" /\ IsCalendarString(cvOut.val.chars))

\* C4: whatever the six reads end in, the run is never aborted and ends with
\* the six per-browser tables and the three combined tables.
C4_RunCompletes ==
  /\ raised = "none"
  /\ pc = "done" => (DOMAIN tables = TableNames /\ DOMAIN combined = Kinds)

\* C5: the combined frame of two frames A and B of one schema with tags X
\* and Y has |A| + |B| rows: A's rows in A's order, each with browser = X,
\* then B's rows in B's order, each with browser = Y.
C5_MergeConcatenates ==
  mOut.done =>
    /\ Len(mOut.frame.rows) = Len(mIn.a.rows) + Len(mIn.b.rows)
    /\ mOut.frame.columns = Append(mIn.a.columns, "browser")
    /\ \A i \in 1..Len(mIn.a.rows) : mOut.frame.rows[i] = Append(mIn.a.rows[i], mIn.x)
    /\ \A i \in 1..Len(mIn.b.rows) :
         mOut.frame.rows[Len(mIn.a.rows) + i] = Append(mIn.b.rows[i], mIn.y)

\* both frames hold the same row twice, so that four equal rows are kept
C5_Witness ==
  /\ mOut.done
  /\ Len(mIn.a.rows) = 2 /\ mIn.a.rows[1] = mIn.a.rows[2]
  /\ mIn.b.rows = mIn.a.rows /\ mIn.x # mIn.y
  /\ Len(mOut.frame.rows) = 4

ExpectedColumns(kind) ==
  CASE kind = "history"   -> <<"url", "title", "visit_count", "last_visit_time">>
    [] kind = "cookies"   ->
         <<"host_key", "name", "value", "creation_utc", "expires_utc", "last_access_utc">>
    [] kind = "bookmarks" -> <<"name", "type", "url", "date_added">>

KindOfTable(name) == CHOOSE k \in Kinds : \E b \in {"Chrome", "Edge"} : TableName(b, k) = name

\* C6: every per-browser table a reader returns, on every path, carries the
\* full column set of its kind.
C6_FullColumnSet ==
  \A name \in DOMAIN tables : tables[name].columns = ExpectedColumns(KindOfTable(name))

\* the date of a calendar string as days since 1601-01-01 and seconds of the day
Num2(cs, i) == DigitVal(cs[i]) * 10 + DigitVal(cs[i + 1])
Num4(cs, i) == Num2(cs, i) * 100 + Num2(cs, i + 2)

FieldsInRange(y, m, d, hh, mm, ss) ==
  /\ y \in 1..9999 /\ m \in 1..12 /\ hh \in 0..23 /\ mm \in 0..59 /\ ss \in 0..59
  /\ d >= 1 /\ d <= DaysInMonthTable[m] + LeapDay(m = 2, IsLeap(y))

CalendarInRange(cs) ==
  FieldsInRange(Num4(cs, 1), Num2(cs, 6), Num2(cs, 9), Num2(cs, 12), Num2(cs, 15), Num2(cs, 18))

DaysSinceEpoch(y, m, d) ==
  ((y - 1) * 365 + (y - 1) \div 4 - (y - 1) \div 100 + (y - 1) \div 400)
    + DaysBeforeMonthTable[m] + LeapDay(m > 2, IsLeap(y)) + d
    - (1600 * 365 + 400 - 16 + 4 + 1)

ParseDays(cs) == DaysSinceEpoch(Num4(cs, 1), Num2(cs, 6), Num2(cs, 9))
ParseSeconds(cs) == Num2(cs, 12) * 3600 + Num2(cs, 15) * 60 + Num2(cs, 18)

\* the ints whose date datetime can hold: 0001-01-01 .. 9999-12-31
Representable(t) ==
  t.k = "int" /\ t.days >= DaysSinceEpoch(1, 1, 1) /\ t.days <= DaysSinceEpoch(9999, 12, 31)

EpochString ==
  <<"1", "6", "0", "1", "-", "0", "1", "-", "0", "1", " ", "0", "0", ":", "0", "0", ":", "0", "0">>
SampleString ==
  <<"2", "0", "2", "3", "-", "0", "5", "-", "3", "1", " ", "0", "9", ":", "4", "6", ":", "4", "0">>

\* C7: for an int t whose date is representable, convert(t) is the
\* 'YYYY-MM-DD HH:MM:SS' string of 1601-01-01 00:00:00 plus t microseconds,
\* truncated to the second: the offset r recomputed from the string has
\* 0 <= t - r < 1,000,000, which on the (days, seconds, microseconds) form
\* of t says that r has the days and the seconds of t (and no microseconds);
\* convert(0) is '1601-01-01 00:00:00'.
C7_ConvertTruncates ==
  (cvOut.exc # "pending" /\ Representable(cvIn)) =>
    /\ cvOut.exc = "none" /\ cvOut.val.k = "str"
    /\ IsCalendarString(cvOut.val.chars)
    /\ CalendarInRange(cvOut.val.chars)
    /\ ParseDays(cvOut.val.chars) = cvIn.days
    /\ ParseSeconds(cvOut.val.chars) = cvIn.seconds
    /\ (cvIn.days = 0 /\ cvIn.seconds = 0) => cvOut.val.chars = EpochString
    /\ (cvIn.days = SampleStamp.days /\ cvIn.seconds = SampleStamp.seconds) =>
         cvOut.val.chars = SampleString

\* a count before the epoch, one microsecond short of the next second
C7_Witness ==
  /\ cvOut.exc = "none" /\ cvOut.val.k = "str"
  /\ Representable(cvIn) /\ cvIn.days < 0 /\ cvIn.microseconds = 999999
  /\ cvIn.seconds = 86399

\* the finished extraction of one browser's bookmarks: the reader has
\* returned and, in WindowsBrowserData.py, line 114 has run
BmFinished ==
  \/ variant = "WBD" /\ bmOut.stage = "read"
  \/ bmOut.stage = "converted"

BrokenPath(file) == ~file.exists \/ ~file.parses \/ ~HasChildrenPath(file.doc)

\* C8: for an absent bookmarks file, and a document with a segment of
\* roots.bookmark_bar.children missing, the extraction yields an empty
\* table and raises nothing, in the reader and in the conversion of
\* date_added applied to its result.
C8_BrokenPathYieldsEmpty ==
  (bmOut.stage # "pending" /\ BrokenPath(bmIn)) =>
    bmOut.exc = "none" /\ bmOut.val.rows = <<>>

IsLast(cols, c) == cols # <<>> /\ cols[Len(cols)] = c
AllButLast(cols) == SubSeq(cols, 1, Len(cols) - 1)

\* C9: in each combined table, in every run, the columns are in the order
\* of the SELECT (of the field list) and browser is the last column.  Stated
\* in its weakest reading: browser is the last column, and the columns
\* before it are those of the kind in their order, or none at all when both
\* per-browser tables came back without columns.
C9_CombinedColumnOrder ==
  \A kind \in DOMAIN combined :
    /\ IsLast(combined[kind].columns, "browser")
    /\ AllButLast(combined[kind].columns) \in {ExpectedColumns(kind), <<>>}

ElementValue(e, key) == e.vals[CHOOSE i \in 1..Len(e.keys) : e.keys[i] = key]
IsFolder(e) == ElementValue(e, "type") = PyStr(<<"folder">>)

ExpectedBookmarkRow(e) ==
  << ElementValue(e, "name"), ElementValue(e, "type"),
     IF IsFolder(e) THEN PyNaN ELSE ElementValue(e, "url"),
     convert_timestamp(ElementValue(e, "date_added")).val >>

\* C10: for a well-formed document with n direct children of the bookmark
\* bar, the extraction gives n rows in document order with the columns
\* name, type, url, date_added: url empty for a folder, date_added
\* converted, and no row for what is nested in a folder.  The columns are
\* required wherever there is a row to carry them.
C10_OneRowPerChild ==
  (BmFinished /\ ~BrokenPath(bmIn)) =>
    /\ bmOut.exc = "none"
    /\ Len(bmOut.val.rows) = Len(bmIn.doc.items)
    /\ bmOut.val.rows # <<>> => bmOut.val.columns = <<"name", "type", "url", "date_added">>
    /\ \A i \in 1..Len(bmOut.val.rows) :
         bmOut.val.rows[i] = ExpectedBookmarkRow(bmIn.doc.items[i])

=============================================================================
